---- MODULE Spec2Model ----
(***************************************************************************)
(* The synthetic charity data generator: the two generator scripts         *)
(*   src/synthetic_charity_dataset.py               (variant "orig")       *)
(*   src/synthetic_charity_dataset_fix_attempt3.py  (variant "fix3")       *)
(* as one sequential pipeline.  Every random draw of the scripts is a      *)
(* nondeterministic choice; money is counted in cents where a draw is a    *)
(* real number, and in whole dollars once it has been rounded.             *)
(***************************************************************************)
EXTENDS Integers, Sequences, FiniteSets, TLC

VARIABLES
    variant,              \* which script runs: "orig" or "fix3"
    start_date,           \* configuration: first date of the horizon
    end_date,             \* configuration: last date of the horizon
    num_contacts,         \* configuration: population size
    target,               \* configuration: total_target (orig) / num_adhoc_opps (fix3)
    pc,                   \* position of the script
    error,                \* the exception that ended the run, "" if none
    df_contacts,          \* the Donor table
    chosen_start_points,  \* start-month index of each regular donor (0-based)
    drop_draws,           \* per plan: the month m whose churn draw fired, 0 if none did
    regular_donors,       \* the regular gift plans
    rg_transactions,      \* the Regular transaction stream
    acq_date,             \* fix3: acquisition date of each contact
    repeat_donor_ids,     \* fix3: positions of the contacts able to give again
    df_adhoc,             \* the one-off transaction stream
    date_draws,           \* per one-off event: the date get_weighted_random_date returned
    df_opps,              \* the merged stream
    unsolicited_indices,  \* the pre-drawn sample of row indices (0-based)
    campaign,             \* the campaign column of df_opps
    idx,                  \* index of the running loop over plans
    amt,                  \* amount law: the amount being processed
    row                   \* classifier law: the row being classified

vars == <<variant, start_date, end_date, num_contacts, target, pc, error,
          df_contacts, chosen_start_points, drop_draws, regular_donors,
          rg_transactions, acq_date, repeat_donor_ids, df_adhoc, df_opps,
          unsolicited_indices, campaign, idx, amt, row, date_draws>>

config == <<variant, start_date, end_date, num_contacts, target>>

(***************************************************************************)
(* Bounds of the model.                                                    *)
(***************************************************************************)
MaxContacts == 2     \* largest population size explored
MaxRegular == 1      \* most contacts flagged is_regular in one run
MaxAdhoc == 1        \* most one-off events generated after the acquisition gifts
MaxRows == 11        \* largest population of the contact generator run on its own

(***************************************************************************)
(* Calendar: a date is <<year, month, day>>.                               *)
(***************************************************************************)
Y0 == 2016
Y1 == Y0 + 1

Min(a, b) == IF a <= b THEN a ELSE b

IsLeap(y) == (y % 4 = 0 /\ y % 100 # 0) \/ y % 400 = 0

DaysInMonth(y, m) ==
    IF m = 2 THEN (IF IsLeap(y) THEN 29 ELSE 28)
    ELSE IF m \in {4, 6, 9, 11} THEN 30 ELSE 31

DaysInYear(y) == IF IsLeap(y) THEN 366 ELSE 365

DateLT(a, b) ==
    \/ a[1] < b[1]
    \/ a[1] = b[1] /\ a[2] < b[2]
    \/ a[1] = b[1] /\ a[2] = b[2] /\ a[3] < b[3]

DateLE(a, b) == a = b \/ DateLT(a, b)

RECURSIVE DaysBeforeYear(_)
DaysBeforeYear(y) == IF y <= Y0 - 1 THEN 0 ELSE DaysInYear(y - 1) + DaysBeforeYear(y - 1)

RECURSIVE DaysBeforeMonth(_, _)
DaysBeforeMonth(y, m) == IF m <= 1 THEN 0 ELSE DaysInMonth(y, m - 1) + DaysBeforeMonth(y, m - 1)

\* Day number of a date, counted from 1 January of the year before Y0.
Ordinal(d) == DaysBeforeYear(d[1]) + DaysBeforeMonth(d[1], d[2]) + d[3]

RECURSIVE YearOfOrdinal(_, _)
YearOfOrdinal(n, y) == IF n <= DaysInYear(y) THEN <<y, n>> ELSE YearOfOrdinal(n - DaysInYear(y), y + 1)

RECURSIVE MonthOfOrdinal(_, _, _)
MonthOfOrdinal(n, y, m) ==
    IF n <= DaysInMonth(y, m) THEN <<y, m, n>> ELSE MonthOfOrdinal(n - DaysInMonth(y, m), y, m + 1)

FromOrdinal(n) == LET yn == YearOfOrdinal(n, Y0 - 1) IN MonthOfOrdinal(yn[2], yn[1], 1)

\* (b - a).days
DaysBetween(a, b) == Ordinal(b) - Ordinal(a)

\* d + pd.Timedelta(days = k)
AddDays(d, k) == FromOrdinal(Ordinal(d) + k)

\* d + pd.DateOffset(months = k): the month advances, the day is clipped to the month
AddMonths(d, k) ==
    LET t == (d[2] - 1) + k
        y == d[1] + (t \div 12)
        m == (t % 12) + 1
    IN <<y, m, Min(d[3], DaysInMonth(y, m))>>

(***************************************************************************)
(* Configuration.                                                          *)
(***************************************************************************)
\* years = list(range(start_date.year, end_date.year + 1, 1))
years ==
    IF end_date[1] < start_date[1] THEN <<>>
    ELSE [i \in 1..(end_date[1] - start_date[1] + 1) |-> start_date[1] + i - 1]

\* month_options: every (year, month) of the years, in order
month_options ==
    [i \in 1..(12 * Len(years)) |-> <<years[((i - 1) \div 12) + 1], ((i - 1) % 12) + 1>>]

Range(s) == {s[i] : i \in DOMAIN s}

(***************************************************************************)
(* Contacts.                                                               *)
(***************************************************************************)
RECURSIVE Digits(_)
\* str(n) for n >= 0, as a sequence of decimal digits
Digits(n) == IF n < 10 THEN <<n>> ELSE Append(Digits(n \div 10), n % 10)

RECURSIVE ZFill(_, _)
\* s.zfill(w): zeros on the left up to width w, never a cut
ZFill(s, w) == IF Len(s) >= w THEN s ELSE ZFill(<<0>> \o s, w)

\* ContactId without the zero padding
ContactId_Unpadded(i) == <<0, 0, 3>> \o Digits(i + 1)

\* f"003{str(i+1).zfill(12)}" for the loop index i
ContactId(i) == <<0, 0, 3>> \o ZFill(Digits(i + 1), 12)

NumRegular(contacts) == Cardinality({k \in DOMAIN contacts : contacts[k].is_regular})

\* regular_contact_ids: the ids of the contacts flagged is_regular, in table order
RECURSIVE RegularIds(_)
RegularIds(contacts) ==
    IF contacts = <<>> THEN <<>>
    ELSE LET rest == RegularIds(SubSeq(contacts, 1, Len(contacts) - 1))
             last == contacts[Len(contacts)]
         IN IF last.is_regular THEN Append(rest, last.contact_id) ELSE rest

regular_contact_ids == RegularIds(df_contacts)

\* contact_ids = df_contacts["contact_id"].tolist()
contact_ids == [k \in DOMAIN df_contacts |-> df_contacts[k].contact_id]

\* major_map = df_contacts.set_index('contact_id')['is_major'].to_dict()
major_map(cid) == (CHOOSE c \in Range(df_contacts) : c.contact_id = cid).is_major

\* random.randint(18, 90): both ends included
AgeRange == 18..90

\* the categories of np.random.choice(['F', 'M', 'Non-binary'], p=[0.52, 0.45, 0.03])
Genders == {"F", "M", "Non-binary"}

\* A probability p is the integer 100000 * p; random.random() draws from [0, 1).
UniformDraws == 0..99999

\* reg_prob without the division of the age by 100
reg_prob_Unscaled(age) == 40000 - (age * 30000)

\* major_prob = 0.001 + (age / 100) * 0.05
major_prob(age) == 100 + (age * 50)

\* reg_prob = 0.40 - (age / 100) * 0.30
reg_prob(age) == 40000 - (age * 300)

\* One iteration of the loop of generate_contacts_with_signals, its draws taken
\* from ages, genders and draws (the two calls of random.random()).  The name
\* comes from the naming library and is not modelled.
GenContact(ages, genders, draws) ==
    /\ pc = "contacts"
    /\ Len(df_contacts) < num_contacts
    /\ \E age \in ages \cap AgeRange, gender \in genders \cap Genders,
          u_major \in draws \cap UniformDraws, u_regular \in draws \cap UniformDraws :
          LET is_major == u_major < major_prob(age)
              is_regular == u_regular < reg_prob(age)
          IN /\ is_regular => NumRegular(df_contacts) < MaxRegular
             /\ df_contacts' = Append(df_contacts,
                    [contact_id |-> ContactId(Len(df_contacts)), age |-> age, gender |-> gender,
                     is_major |-> is_major, is_regular |-> is_regular])
    /\ UNCHANGED <<config, pc, error, chosen_start_points, drop_draws, regular_donors,
                   rg_transactions, acq_date, repeat_donor_ids, df_adhoc, df_opps,
                   unsolicited_indices, campaign, idx, amt, row, date_draws>>

\* The end of the contact loop and the selection of the regular contacts: an
\* empty table has no is_regular column.
ContactsDone ==
    /\ pc = "contacts"
    /\ Len(df_contacts) >= num_contacts
    /\ IF df_contacts = <<>>
       THEN pc' = "error" /\ error' = "KeyError: is_regular"
       ELSE pc' = "start_points" /\ error' = error
    /\ UNCHANGED <<config, df_contacts, chosen_start_points, drop_draws, regular_donors,
                   rg_transactions, acq_date, repeat_donor_ids, df_adhoc, df_opps,
                   unsolicited_indices, campaign, idx, amt, row, date_draws>>

(***************************************************************************)
(* Regular giving: start months, plans, expansion.                         *)
(***************************************************************************)
\* np.random.choice(len(month_options), size=num_regular, p=probabilities): every
\* month has a positive weight, so every index can be drawn; with no year in the
\* horizon the probabilities are empty and do not sum to 1.
DrawStartPoints(months) ==
    /\ pc = "start_points"
    /\ IF Len(month_options) = 0
       THEN /\ pc' = "error"
            /\ error' = "ValueError: probabilities do not sum to 1"
            /\ UNCHANGED chosen_start_points
       ELSE /\ \E pts \in [1..Len(regular_contact_ids) ->
                             {k \in 0..(Len(month_options) - 1) : month_options[k + 1][2] \in months}] :
                  chosen_start_points' = pts
            /\ pc' = "plans"
            /\ error' = error
    /\ UNCHANGED <<config, df_contacts, drop_draws, regular_donors, rg_transactions,
                   acq_date, repeat_donor_ids, df_adhoc, df_opps, unsolicited_indices,
                   campaign, idx, amt, row, date_draws>>

\* max_possible_months of a plan that starts on start_dt
max_possible_months(start_dt) ==
    (end_date[1] - start_dt[1]) * 12 + (end_date[2] - start_dt[2]) + 1

RECURSIVE ChurnLoop(_, _, _, _)
\* for m in range(2, max_possible_months + 1), with the churn draw firing at
\* month dropAt (0: at no month); the value of months_stayed after the loop
ChurnLoop(m, maxMonths, dropAt, months_stayed) ==
    IF m > maxMonths THEN months_stayed
    ELSE IF m = dropAt THEN months_stayed
    ELSE ChurnLoop(m + 1, maxMonths, dropAt, m)

MonthsStayed(maxMonths, dropAt) == ChurnLoop(2, maxMonths, dropAt, 1)

\* range(10, 105, 5)
PlanAmounts == {10 + 5 * k : k \in 0..18}

\* One iteration of the loop over chosen_start_points.
MakePlan(drops, amounts) ==
    /\ pc = "plans"
    /\ Len(regular_donors) < Len(chosen_start_points)
    /\ LET i == Len(regular_donors)
           ym == month_options[chosen_start_points[i + 1] + 1]
           start_dt == <<ym[1], ym[2], 1>>
           maxMonths == max_possible_months(start_dt)
       IN \E dropAt \in {d \in drops : d = 0 \/ (2 <= d /\ d <= maxMonths)},
             amount \in amounts \cap PlanAmounts :
             /\ regular_donors' = Append(regular_donors,
                    [contact_id |-> regular_contact_ids[i + 1], start_date |-> start_dt,
                     months |-> MonthsStayed(maxMonths, dropAt), amount |-> amount])
             /\ drop_draws' = Append(drop_draws, dropAt)
    /\ UNCHANGED <<config, pc, error, df_contacts, chosen_start_points, rg_transactions,
                   acq_date, repeat_donor_ids, df_adhoc, df_opps, unsolicited_indices,
                   campaign, idx, amt, row, date_draws>>

\* The end of the plan loop and the acquisition chart: a plan table without rows
\* has no start_date column.
PlansDone ==
    /\ pc = "plans"
    /\ Len(regular_donors) = Len(chosen_start_points)
    /\ IF regular_donors = <<>>
       THEN pc' = "error" /\ error' = "KeyError: start_date"
       ELSE pc' = "expand" /\ error' = error
    /\ idx' = 0
    /\ UNCHANGED <<config, df_contacts, chosen_start_points, drop_draws, regular_donors,
                   rg_transactions, acq_date, repeat_donor_ids, df_adhoc, df_opps,
                   unsolicited_indices, campaign, amt, row, date_draws>>

RECURSIVE ExpandLoop_Unclipped(_, _, _)
\* ExpandLoop without the comparison against end_date
ExpandLoop_Unclipped(donor, m, txs) ==
    IF m >= donor.months THEN txs
    ELSE ExpandLoop_Unclipped(donor, m + 1, Append(txs,
             [opportunity_id |-> <<"006_REG_", Len(txs)>>,
              contact_id |-> donor.contact_id, close_date |-> AddMonths(donor.start_date, m),
              amount |-> donor.amount, stage |-> "Closed Won", type |-> "Regular"]))

RECURSIVE ExpandLoop(_, _, _)
\* for m in range(donor['months']): the transactions appended to txs from offset m on
ExpandLoop(donor, m, txs) ==
    IF m >= donor.months THEN txs
    ELSE LET tx_date == AddMonths(donor.start_date, m)
         IN IF DateLE(tx_date, end_date)
            THEN ExpandLoop(donor, m + 1, Append(txs,
                     [opportunity_id |-> <<"006_REG_", Len(txs)>>,
                      contact_id |-> donor.contact_id, close_date |-> tx_date,
                      amount |-> donor.amount, stage |-> "Closed Won", type |-> "Regular"]))
            ELSE ExpandLoop(donor, m + 1, txs)

\* One iteration of the loop over regular_donors: the whole inner loop.
ExpandPlan ==
    /\ pc = "expand"
    /\ idx < Len(regular_donors)
    /\ rg_transactions' = ExpandLoop(regular_donors[idx + 1], 0, rg_transactions)
    /\ idx' = idx + 1
    /\ UNCHANGED <<config, pc, error, df_contacts, chosen_start_points, drop_draws,
                   regular_donors, acq_date, repeat_donor_ids, df_adhoc, df_opps,
                   unsolicited_indices, campaign, amt, row, date_draws>>

(***************************************************************************)
(* One-off gifts: seasonal dates, amounts.                                  *)
(***************************************************************************)
\* the day range of get_weighted_random_date: leap years are ignored
SeasonalMonthLen(month) ==
    IF month = 2 THEN 28 ELSE IF month \in {4, 6, 9, 11} THEN 30 ELSE 31

\* get_weighted_random_date(year): every month has a positive weight; the draws
\* are taken from months and days
SeasonalDates(year, months, days) ==
    UNION {{<<year, m, d>> : d \in days \cap (1..SeasonalMonthLen(m))} : m \in months \cap (1..12)}

MajorFloor == 1000
MajorCap == 50000
MajorReplLow == 20000
GeneralFloor == 25
GeneralCap == 1000
GeneralReplLow == 500
\* an amount of whole dollars, in cents
Cents(dollars) == dollars * 100

\* the raw Pareto draws (cents): pareto() >= 0, scaled and shifted
RawDomain(is_major, raw) ==
    IF is_major THEN raw >= Cents(MajorFloor) ELSE raw >= Cents(GeneralFloor)

\* np.random.uniform(low, high) draws from [low, high)
ReplDomain(is_major, repl) ==
    IF is_major THEN Cents(MajorReplLow) <= repl /\ repl < Cents(MajorCap)
    ELSE Cents(GeneralReplLow) <= repl /\ repl < Cents(GeneralCap)

Exceeds(is_major, raw) ==
    IF is_major THEN raw > Cents(MajorCap) ELSE raw > Cents(GeneralCap)

\* CapAmount without the cap: the raw draw is kept whatever its size
CapAmountKeepsRaw(is_major, raw, repl) == raw

\* if amount > cap: amount = np.random.uniform(...)
CapAmount(is_major, raw, repl) == IF Exceeds(is_major, raw) THEN repl ELSE raw

\* RoundHalfEven cutting the fraction instead of rounding to nearest
RoundDown(n, d) == n \div d

\* round(n / d) of Python for integers n >= 0, d > 0: to nearest, a tie to the
\* even neighbour
RoundHalfEven(n, d) ==
    LET q == n \div d
        r == n % d
    IN IF 2 * r < d THEN q
       ELSE IF 2 * r > d THEN q + 1
       ELSE IF q % 2 = 0 THEN q ELSE q + 1

\* round_amount(amount, base) for an amount in cents: whole dollars
round_amount(amount, base) == base * RoundHalfEven(amount, Cents(base))

\* the base chosen by the rounding logic of the event loop
RoundingBase(amount) ==
    IF amount >= Cents(1000) THEN 500
    ELSE IF amount >= Cents(100) THEN 50
    ELSE 5

\* the stored amount (dollars) of a post-cap amount (cents)
Denominate(amount) == round_amount(amount, RoundingBase(amount))

\* the amounts an event of a donor can store, its draws taken from raws and repls
StoredAmounts(is_major, raws, repls) ==
    UNION {IF Exceeds(is_major, raw)
           THEN {Denominate(CapAmount(is_major, raw, repl)) :
                    repl \in {a \in repls : ReplDomain(is_major, a)}}
           ELSE {Denominate(CapAmount(is_major, raw, raw))} :
           raw \in {a \in raws : RawDomain(is_major, a)}}

\* the loop bound of the event loop
NumEvents == IF variant = "orig" THEN target - Len(rg_transactions) ELSE target

\* The end of the expansion loop.  The model follows runs whose event loop
\* stays within MaxAdhoc events (fix3: after the acquisition gifts).
ExpandDone ==
    /\ pc = "expand"
    /\ idx = Len(regular_donors)
    /\ NumEvents <= (IF variant = "orig" THEN MaxAdhoc ELSE num_contacts + MaxAdhoc)
    /\ pc' = (IF variant = "orig" THEN "adhoc" ELSE "acq")
    /\ UNCHANGED <<config, error, df_contacts, chosen_start_points, drop_draws,
                   regular_donors, rg_transactions, acq_date, repeat_donor_ids, df_adhoc,
                   df_opps, unsolicited_indices, campaign, idx, amt, row, date_draws>>

\* fix3: acq_date[cid] = get_weighted_random_date(np.random.choice(years)), one
\* contact per step
DrawAcqDate(months, days) ==
    /\ pc = "acq"
    /\ Len(acq_date) < Len(df_contacts)
    /\ \E y \in Range(years) : \E d \in SeasonalDates(y, months, days) :
          acq_date' = Append(acq_date, d)
    /\ UNCHANGED <<config, pc, error, df_contacts, chosen_start_points, drop_draws,
                   regular_donors, rg_transactions, repeat_donor_ids, df_adhoc, df_opps,
                   unsolicited_indices, campaign, idx, amt, row, date_draws>>

\* repeat_pool_size with the 30% of the comment in the event loop
repeat_pool_size_Thirty == (num_contacts * 30) \div 100

\* repeat_pool_size = int(num_contacts * 0.45)
repeat_pool_size == (num_contacts * 45) \div 100

\* fix3: repeat_donor_ids = np.random.choice(contact_ids, size=repeat_pool_size,
\* replace=False); the loyalty weights are positive
DrawRepeatPool ==
    /\ pc = "acq"
    /\ Len(acq_date) = Len(df_contacts)
    /\ \E pool \in SUBSET Range(contact_ids) :
          /\ Cardinality(pool) = repeat_pool_size
          /\ repeat_donor_ids' = pool
    /\ pc' = "adhoc"
    /\ UNCHANGED <<config, error, df_contacts, chosen_start_points, drop_draws,
                   regular_donors, rg_transactions, acq_date, df_adhoc, df_opps,
                   unsolicited_indices, campaign, idx, amt, row, date_draws>>

AcqDateOf(cid) == acq_date[CHOOSE k \in DOMAIN contact_ids : contact_ids[k] = cid]

\* the one-off transaction of event i
Donation(i, donor_id, close_date, amount) ==
    [opportunity_id |-> <<"006_GEN_", i>>, contact_id |-> donor_id,
     close_date |-> close_date, amount |-> amount,
     is_major_gift |-> major_map(donor_id), stage |-> "Closed Won"]

\* orig: an event of generate_segmented_donations; every contact has a positive
\* activity weight
UniformEvent(months, days, raws, repls) ==
    /\ pc = "adhoc"
    /\ variant = "orig"
    /\ Len(df_adhoc) < NumEvents
    /\ \E donor_id \in Range(contact_ids), year \in Range(years) :
       \E close_date \in SeasonalDates(year, months, days) :
       \E amount \in StoredAmounts(major_map(donor_id), raws, repls) :
          /\ df_adhoc' = Append(df_adhoc, Donation(Len(df_adhoc), donor_id, close_date, amount))
          /\ date_draws' = Append(date_draws, close_date)
    /\ UNCHANGED <<config, pc, error, df_contacts, chosen_start_points, drop_draws,
                   regular_donors, rg_transactions, acq_date, repeat_donor_ids, df_opps,
                   unsolicited_indices, campaign, idx, amt, row>>

\* fix3: an acquisition gift, event i < num_contacts
AcquisitionEvent(raws, repls) ==
    /\ pc = "adhoc"
    /\ variant = "fix3"
    /\ Len(df_adhoc) < NumEvents
    /\ Len(df_adhoc) < num_contacts
    /\ LET donor_id == contact_ids[Len(df_adhoc) + 1]
       IN \E amount \in StoredAmounts(major_map(donor_id), raws, repls) :
             df_adhoc' = Append(df_adhoc,
                 Donation(Len(df_adhoc), donor_id, acq_date[Len(df_adhoc) + 1], amount))
    /\ date_draws' = Append(date_draws, acq_date[Len(df_adhoc) + 1])
    /\ UNCHANGED <<config, pc, error, df_contacts, chosen_start_points, drop_draws,
                   regular_donors, rg_transactions, acq_date, repeat_donor_ids, df_opps,
                   unsolicited_indices, campaign, idx, amt, row>>

\* SafetyCatch switched off: the seasonal date is kept whatever the acquisition date
SafetyCatch_Off(close_date, acq, dayDraws) == {close_date}

\* the date safety catch of a repeat gift: the dates it can yield for the
\* seasonal date close_date, random_days taken from dayDraws
SafetyCatch(close_date, acq, dayDraws) ==
    LET days_diff == DaysBetween(acq, end_date)
    IN IF DateLT(close_date, acq)
       THEN IF days_diff > 0
            THEN {AddDays(acq, random_days) : random_days \in dayDraws \cap (1..days_diff)}
            ELSE {acq}
       ELSE {close_date}

\* fix3: a repeat gift, event i >= num_contacts; an empty repeat pool cannot be
\* drawn from
RepeatEvent(months, days, dayDraws, raws, repls) ==
    /\ pc = "adhoc"
    /\ variant = "fix3"
    /\ Len(df_adhoc) < NumEvents
    /\ Len(df_adhoc) >= num_contacts
    /\ IF repeat_donor_ids = {}
       THEN /\ pc' = "error"
            /\ error' = "ValueError: a cannot be empty"
            /\ UNCHANGED <<df_adhoc, date_draws>>
       ELSE /\ \E donor_id \in repeat_donor_ids :
               \E close_year \in {y \in Range(years) : y >= AcqDateOf(donor_id)[1]} :
               \E seasonal \in SeasonalDates(close_year, months, days) :
               \E close_date \in SafetyCatch(seasonal, AcqDateOf(donor_id), dayDraws) :
               \E amount \in StoredAmounts(major_map(donor_id), raws, repls) :
                  /\ df_adhoc' = Append(df_adhoc,
                         Donation(Len(df_adhoc), donor_id, close_date, amount))
                  /\ date_draws' = Append(date_draws, seasonal)
            /\ UNCHANGED <<pc, error>>
    /\ UNCHANGED <<config, df_contacts, chosen_start_points, drop_draws, regular_donors,
                   rg_transactions, acq_date, repeat_donor_ids, df_opps,
                   unsolicited_indices, campaign, idx, amt, row>>

\* The end of the event loop; orig then charts df_adhoc['close_date'], a column
\* a table without rows does not have.
AdhocDone ==
    /\ pc = "adhoc"
    /\ Len(df_adhoc) >= NumEvents
    /\ IF variant = "orig" /\ df_adhoc = <<>>
       THEN pc' = "error" /\ error' = "KeyError: close_date"
       ELSE pc' = "merge" /\ error' = error
    /\ UNCHANGED <<config, df_contacts, chosen_start_points, drop_draws, regular_donors,
                   rg_transactions, acq_date, repeat_donor_ids, df_adhoc, df_opps,
                   unsolicited_indices, campaign, idx, amt, row, date_draws>>

(***************************************************************************)
(* Merge, unsolicited sample, campaign assignment.                         *)
(***************************************************************************)
\* pd.concat([df_rg, df_adhoc]).reset_index(drop=True): the columns of both
\* tables, a missing cell being NaN
MergedRows ==
    [k \in 1..Len(rg_transactions) |->
        [opportunity_id |-> rg_transactions[k].opportunity_id,
         contact_id |-> rg_transactions[k].contact_id,
         close_date |-> rg_transactions[k].close_date,
         amount |-> rg_transactions[k].amount,
         type |-> rg_transactions[k].type,
         is_major_gift |-> "NaN"]]
    \o
    [k \in 1..Len(df_adhoc) |->
        [opportunity_id |-> df_adhoc[k].opportunity_id,
         contact_id |-> df_adhoc[k].contact_id,
         close_date |-> df_adhoc[k].close_date,
         amount |-> df_adhoc[k].amount,
         type |-> "NaN",
         is_major_gift |-> IF df_adhoc[k].is_major_gift THEN "True" ELSE "False"]]

\* df_opps[df_opps['type'] != 'Regular'].index, 0-based
NonRegularIndices(rows) == {k - 1 : k \in {j \in DOMAIN rows : rows[j].type # "Regular"}}

\* SampleSize counting the non-Regular rows only
SampleSizeOfNonRegular(rows) == (Cardinality(NonRegularIndices(rows)) * 5) \div 100

\* int(len(df_opps) * 0.05)
SampleSize(rows) == (Len(rows) * 5) \div 100

\* The concat and the draw of the unsolicited sample.  Without a regular
\* transaction the merged table has no type column; a sample larger than the
\* non-regular rows cannot be drawn without replacement.
MergeAndSample ==
    /\ pc = "merge"
    /\ df_opps' = MergedRows
    /\ IF rg_transactions = <<>>
       THEN /\ pc' = "error"
            /\ error' = "KeyError: type"
            /\ UNCHANGED unsolicited_indices
       ELSE IF SampleSize(MergedRows) > Cardinality(NonRegularIndices(MergedRows))
       THEN /\ pc' = "error"
            /\ error' = "ValueError: sample larger than population"
            /\ UNCHANGED unsolicited_indices
       ELSE /\ \E sample \in SUBSET NonRegularIndices(MergedRows) :
                  /\ Cardinality(sample) = SampleSize(MergedRows)
                  /\ unsolicited_indices' = sample
            /\ pc' = "assign"
            /\ error' = error
    /\ UNCHANGED <<config, df_contacts, chosen_start_points, drop_draws, regular_donors,
                   rg_transactions, acq_date, repeat_donor_ids, df_adhoc, campaign, idx,
                   amt, row, date_draws>>

\* assign_campaign without its first rule: a Regular row falls through to the
\* date rules
assign_campaign_NoRegularRule(r, name, unsolicited_random_indices) ==
    LET m == r.close_date[2]
        day == r.close_date[3]
    IN IF name \in unsolicited_random_indices THEN "Unsolicited"
       ELSE IF r.is_major_gift = "True" THEN "Major Giving"
       ELSE IF (m = 5) \/ (m = 6) \/ (m = 7 /\ day <= 15) THEN "Tax Appeal"
       ELSE IF (m = 11) \/ (m = 12) \/ (m = 1 /\ day <= 15) THEN "Christmas Appeal"
       ELSE IF (m = 9 /\ day >= 16) \/ (m = 10 /\ day <= 15) THEN "Spring Newsletter"
       ELSE IF (m = 3 /\ day >= 16) \/ (m = 4 /\ day <= 15) THEN "Autumn Newsletter"
       ELSE "Unsolicited"

\* assign_campaign with the major rule ahead of the sample rule and the tax
\* window closing a day early
assign_campaign_Reordered(r, name, unsolicited_random_indices) ==
    LET m == r.close_date[2]
        day == r.close_date[3]
    IN IF r.type = "Regular" THEN "Regular Giving"
       ELSE IF r.is_major_gift = "True" THEN "Major Giving"
       ELSE IF name \in unsolicited_random_indices THEN "Unsolicited"
       ELSE IF (m = 5) \/ (m = 6) \/ (m = 7 /\ day < 15) THEN "Tax Appeal"
       ELSE IF (m = 11) \/ (m = 12) \/ (m = 1 /\ day <= 15) THEN "Christmas Appeal"
       ELSE IF (m = 9 /\ day >= 16) \/ (m = 10 /\ day <= 15) THEN "Spring Newsletter"
       ELSE IF (m = 3 /\ day >= 16) \/ (m = 4 /\ day <= 15) THEN "Autumn Newsletter"
       ELSE "Unsolicited"

\* assign_campaign(row, unsolicited_random_indices), name being row.name
assign_campaign(r, name, unsolicited_random_indices) ==
    LET m == r.close_date[2]
        day == r.close_date[3]
    IN IF r.type = "Regular" THEN "Regular Giving"
       ELSE IF name \in unsolicited_random_indices THEN "Unsolicited"
       ELSE IF r.is_major_gift = "True" THEN "Major Giving"
       ELSE IF (m = 5) \/ (m = 6) \/ (m = 7 /\ day <= 15) THEN "Tax Appeal"
       ELSE IF (m = 11) \/ (m = 12) \/ (m = 1 /\ day <= 15) THEN "Christmas Appeal"
       ELSE IF (m = 9 /\ day >= 16) \/ (m = 10 /\ day <= 15) THEN "Spring Newsletter"
       ELSE IF (m = 3 /\ day >= 16) \/ (m = 4 /\ day <= 15) THEN "Autumn Newsletter"
       ELSE "Unsolicited"

\* df_opps['campaign'] = df_opps.apply(...): the whole pass
AssignCampaigns ==
    /\ pc = "assign"
    /\ campaign' = [k \in DOMAIN df_opps |-> assign_campaign(df_opps[k], k - 1, unsolicited_indices)]
    /\ pc' = "fillna"
    /\ UNCHANGED <<config, error, df_contacts, chosen_start_points, drop_draws,
                   regular_donors, rg_transactions, acq_date, repeat_donor_ids, df_adhoc,
                   df_opps, unsolicited_indices, idx, amt, row, date_draws>>

\* df_opps["is_major_gift"].astype("boolean").fillna(False); without a one-off
\* transaction the merged table has no is_major_gift column
FillNa ==
    /\ pc = "fillna"
    /\ IF df_adhoc = <<>>
       THEN /\ pc' = "error"
            /\ error' = "KeyError: is_major_gift"
            /\ UNCHANGED df_opps
       ELSE /\ df_opps' = [k \in DOMAIN df_opps |->
                   [df_opps[k] EXCEPT !.is_major_gift = IF @ = "NaN" THEN "False" ELSE @]]
            /\ pc' = "done"
            /\ error' = error
    /\ UNCHANGED <<config, df_contacts, chosen_start_points, drop_draws, regular_donors,
                   rg_transactions, acq_date, repeat_donor_ids, df_adhoc,
                   unsolicited_indices, campaign, idx, amt, row, date_draws>>

(***************************************************************************)
(* The pipeline.                                                           *)
(***************************************************************************)
\* horizons: two years on year boundaries; a start inside a year; an end
\* inside a year; an end before the start, in the same year and in an earlier one
Horizons ==
    {<<<<Y0, 1, 1>>, <<Y1, 12, 31>>>>,
     <<<<Y0, 3, 15>>, <<Y0, 12, 31>>>>,
     <<<<Y0, 1, 1>>, <<Y0, 6, 30>>>>,
     <<<<Y0, 3, 15>>, <<Y0, 1, 31>>>>,
     <<<<Y1, 1, 1>>, <<Y0, 12, 31>>>>}

Targets == {0, 1, 2, 4, 25}

NoAmount == [stage |-> "none"]
NoRow == [stage |-> "none"]

InitTables ==
    /\ pc = "contacts"
    /\ error = ""
    /\ df_contacts = <<>>
    /\ chosen_start_points = <<>>
    /\ drop_draws = <<>>
    /\ regular_donors = <<>>
    /\ rg_transactions = <<>>
    /\ acq_date = <<>>
    /\ repeat_donor_ids = {}
    /\ df_adhoc = <<>>
    /\ date_draws = <<>>
    /\ df_opps = <<>>
    /\ unsolicited_indices = {}
    /\ campaign = <<>>
    /\ idx = 0

Init ==
    /\ variant \in {"orig", "fix3"}
    /\ \E h \in Horizons : start_date = h[1] /\ end_date = h[2]
    /\ num_contacts \in 0..MaxContacts
    /\ target \in Targets
    /\ InitTables
    /\ amt = NoAmount
    /\ row = NoRow

PipelineMonths == {1, 12}
PipelineDays == {1}
PipelineDrops == {0, 2}
PipelineRaws == {Cents(60000)}
PipelineRepls == {Cents(GeneralReplLow), Cents(MajorReplLow)}
\* random.random(): a draw below every probability and one above every probability
PipelineUniform == {0, 99999}

Next ==
    \/ GenContact({18}, {"F"}, PipelineUniform)
    \/ ContactsDone
    \/ DrawStartPoints(PipelineMonths)
    \/ MakePlan(PipelineDrops, {10})
    \/ PlansDone
    \/ ExpandPlan
    \/ ExpandDone
    \/ DrawAcqDate({12}, {31})
    \/ DrawRepeatPool
    \/ UniformEvent(PipelineMonths, PipelineDays, PipelineRaws, PipelineRepls)
    \/ AcquisitionEvent(PipelineRaws, PipelineRepls)
    \/ RepeatEvent(PipelineMonths, PipelineDays, {1}, PipelineRaws, PipelineRepls)
    \/ AdhocDone
    \/ MergeAndSample
    \/ AssignCampaigns
    \/ FillNa

Spec == Init /\ [][Next]_vars

(***************************************************************************)
(* The amount law on its own: one draw, capped, then rounded.               *)
(***************************************************************************)
\* raw draws (cents): every 2.50 up to 1100.00, every 250.00 up to 61000.00,
\* and the cents around the thresholds of the cap and of the rounding
AmountDraws ==
    {250 * k : k \in 10..440} \cup {25000 * k : k \in 4..244} \cup
    {Cents(t) + e : t \in {100, 1000, 50000}, e \in {-1, 0, 1}}

\* replacement draws (cents): every 125.00 and every 12.50, and the last cent
\* below each upper end
ReplacementDraws ==
    {12500 * k : k \in 160..399} \cup {1250 * k : k \in 40..79} \cup
    {Cents(MajorCap) - 1, Cents(GeneralCap) - 1}

InitAmount ==
    /\ variant = "orig"
    /\ start_date = <<Y0, 1, 1>>
    /\ end_date = <<Y1, 12, 31>>
    /\ num_contacts = 0
    /\ target = 0
    /\ InitTables
    /\ row = NoRow
    /\ \E is_major \in BOOLEAN : \E raw \in {a \in AmountDraws : RawDomain(is_major, a)} :
          amt = [stage |-> "drawn", is_major |-> is_major, raw |-> raw,
                 amount |-> raw, stored |-> 0]

\* if amount > cap: amount = np.random.uniform(low, high)
CapStep ==
    /\ amt.stage = "drawn"
    /\ \E repl \in IF Exceeds(amt.is_major, amt.raw)
                   THEN {a \in ReplacementDraws : ReplDomain(amt.is_major, a)}
                   ELSE {amt.raw} :
          amt' = [amt EXCEPT !.stage = "capped",
                             !.amount = CapAmount(amt.is_major, amt.raw, repl)]
    /\ UNCHANGED <<config, pc, error, df_contacts, chosen_start_points, drop_draws,
                   regular_donors, rg_transactions, acq_date, repeat_donor_ids, df_adhoc,
                   df_opps, unsolicited_indices, campaign, idx, row, date_draws>>

\* the rounding logic
RoundStep ==
    /\ amt.stage = "capped"
    /\ amt' = [amt EXCEPT !.stage = "stored", !.stored = Denominate(amt.amount)]
    /\ UNCHANGED <<config, pc, error, df_contacts, chosen_start_points, drop_draws,
                   regular_donors, rg_transactions, acq_date, repeat_donor_ids, df_adhoc,
                   df_opps, unsolicited_indices, campaign, idx, row, date_draws>>

NextAmount == CapStep \/ RoundStep

SpecAmount == InitAmount /\ [][NextAmount]_vars

(***************************************************************************)
(* The classifier on its own: one row of the merged table.                 *)
(***************************************************************************)
\* A Regular row closes on day 1, has no is_major_gift and is never sampled; a
\* one-off row has any seasonal date, either flag, and is sampled or not.
ClassifierRows ==
    {[type |-> "Regular", is_major_gift |-> "NaN", close_date |-> <<Y0, m, 1>>,
      name |-> 0, sample |-> {}, campaign |-> "", stage |-> "input"] : m \in 1..12}
    \cup
    {[type |-> "NaN", is_major_gift |-> g, close_date |-> d,
      name |-> 0, sample |-> s, campaign |-> "", stage |-> "input"] :
        g \in {"True", "False"}, d \in SeasonalDates(Y0, 1..12, 1..31), s \in {{}, {0}, {1}}}

InitClassify ==
    /\ variant = "orig"
    /\ start_date = <<Y0, 1, 1>>
    /\ end_date = <<Y1, 12, 31>>
    /\ num_contacts = 0
    /\ target = 0
    /\ InitTables
    /\ amt = NoAmount
    /\ row \in ClassifierRows

Classify ==
    /\ row.stage = "input"
    /\ row' = [row EXCEPT !.stage = "classified",
                          !.campaign = assign_campaign(row, row.name, row.sample)]
    /\ UNCHANGED <<config, pc, error, df_contacts, chosen_start_points, drop_draws,
                   regular_donors, rg_transactions, acq_date, repeat_donor_ids, df_adhoc,
                   df_opps, unsolicited_indices, campaign, idx, amt, date_draws>>

NextClassify == Classify

SpecClassify == InitClassify /\ [][NextClassify]_vars

(***************************************************************************)
(* The contact generator on its own: generate_contacts_with_signals(n).    *)
(***************************************************************************)
InitContacts ==
    /\ variant \in {"orig", "fix3"}
    /\ start_date = <<Y0, 1, 1>>
    /\ end_date = <<Y1, 12, 31>>
    /\ num_contacts \in {0, 1, 2, MaxRows}
    /\ target = 0
    /\ InitTables
    /\ amt = NoAmount
    /\ row = NoRow

\* random.random(): the ends of [0, 1), and major_prob(18) and reg_prob(90) each
\* with the value just below it
ContactUniform == {0, 999, 1000, 12999, 13000, 99999}

\* The first contact takes every age, gender and outcome of the two draws; the
\* later ones are of age 90, male, with both draws failing.
NextContacts ==
    \/ (df_contacts = <<>> /\ GenContact(AgeRange, Genders, ContactUniform))
    \/ (df_contacts # <<>> /\ GenContact({90}, {"M"}, {99999}))
    \/ ContactsDone

SpecContacts == InitContacts /\ [][NextContacts]_vars

(***************************************************************************)
(* The acquisition and loyalty policy on its own (fix3), entered after the *)
(* expansion of the regular plans.                                         *)
(***************************************************************************)
LoyaltyPopulations == {3, 5}

\* a contact table of n rows: the first contact regular, the second major
LoyaltyContacts(n) ==
    [k \in 1..n |-> [contact_id |-> ContactId(k - 1), age |-> 18, gender |-> "F",
                     is_major |-> (k = 2), is_regular |-> (k = 1)]]

\* the plan of the regular contact: one month from the first month of the horizon
LoyaltyPlan ==
    [contact_id |-> ContactId(0), start_date |-> <<Y0, 1, 1>>, months |-> 1, amount |-> 10]

\* horizons: two whole years, and half a year
LoyaltyHorizons == {<<<<Y0, 1, 1>>, <<Y1, 12, 31>>>>, <<<<Y0, 1, 1>>, <<Y0, 6, 30>>>>}

InitLoyalty ==
    /\ variant = "fix3"
    /\ \E h \in LoyaltyHorizons : start_date = h[1] /\ end_date = h[2]
    /\ num_contacts \in LoyaltyPopulations
    /\ target \in num_contacts..(num_contacts + MaxAdhoc)
    /\ pc = "acq"
    /\ error = ""
    /\ df_contacts = LoyaltyContacts(num_contacts)
    /\ chosen_start_points = <<0>>
    /\ drop_draws = <<2>>
    /\ regular_donors = <<LoyaltyPlan>>
    /\ rg_transactions = ExpandLoop(LoyaltyPlan, 0, <<>>)
    /\ idx = 1
    /\ acq_date = <<>>
    /\ repeat_donor_ids = {}
    /\ df_adhoc = <<>>
    /\ date_draws = <<>>
    /\ df_opps = <<>>
    /\ unsolicited_indices = {}
    /\ campaign = <<>>
    /\ amt = NoAmount
    /\ row = NoRow

LoyaltyMonths == {1, 12}
LoyaltyDays == {1, 31}
\* random_days: the first day after the acquisition, a day inside the window,
\* and the last day of the window of an acquisition on 31 December of the year
\* before the last
LoyaltyRandomDays == {1, 30, 365}

NextLoyalty ==
    \/ DrawAcqDate({12}, {31})
    \/ DrawRepeatPool
    \/ AcquisitionEvent(PipelineRaws, PipelineRepls)
    \/ RepeatEvent(LoyaltyMonths, LoyaltyDays, LoyaltyRandomDays, PipelineRaws, PipelineRepls)
    \/ AdhocDone

SpecLoyalty == InitLoyalty /\ [][NextLoyalty]_vars

(***************************************************************************)
(* Regular giving on its own: start months, plans and their expansion for  *)
(* a population in which every contact is regular.                         *)
(***************************************************************************)
PlanContacts(n) ==
    [k \in 1..n |-> [contact_id |-> ContactId(k - 1), age |-> 18, gender |-> "F",
                     is_major |-> FALSE, is_regular |-> TRUE]]

\* horizons: two whole years; a start inside a year; an end inside a year
PlanHorizons ==
    {<<<<Y0, 1, 1>>, <<Y1, 12, 31>>>>,
     <<<<Y0, 3, 15>>, <<Y0, 12, 31>>>>,
     <<<<Y0, 1, 1>>, <<Y0, 6, 30>>>>}

InitPlans ==
    /\ variant \in {"orig", "fix3"}
    /\ \E h \in PlanHorizons : start_date = h[1] /\ end_date = h[2]
    /\ num_contacts \in 1..MaxContacts
    /\ target = 0
    /\ pc = "start_points"
    /\ error = ""
    /\ df_contacts = PlanContacts(num_contacts)
    /\ chosen_start_points = <<>>
    /\ drop_draws = <<>>
    /\ regular_donors = <<>>
    /\ rg_transactions = <<>>
    /\ acq_date = <<>>
    /\ repeat_donor_ids = {}
    /\ df_adhoc = <<>>
    /\ date_draws = <<>>
    /\ df_opps = <<>>
    /\ unsolicited_indices = {}
    /\ campaign = <<>>
    /\ idx = 0
    /\ amt = NoAmount
    /\ row = NoRow

PlanMonths == {1, 7, 12}
\* the month whose churn draw fires: none, the first possible, the next, and
\* the first of the second year of a plan
PlanDrops == {0, 2, 3, 13}

NextPlans ==
    \/ DrawStartPoints(PlanMonths)
    \/ MakePlan(PlanDrops, {10})
    \/ PlansDone
    \/ ExpandPlan

SpecPlans == InitPlans /\ [][NextPlans]_vars

(***************************************************************************)
(* The pipeline from the start months on for a population in which every   *)
(* contact is regular: long Regular streams against few one-off events.    *)
(***************************************************************************)
SampleTargets == {1, 2, 3, 40, 49}

InitSample ==
    /\ variant \in {"orig", "fix3"}
    /\ start_date = <<Y0, 1, 1>>
    /\ end_date = <<Y1, 12, 31>>
    /\ num_contacts \in 1..MaxContacts
    /\ target \in SampleTargets
    /\ pc = "start_points"
    /\ error = ""
    /\ df_contacts = PlanContacts(num_contacts)
    /\ chosen_start_points = <<>>
    /\ drop_draws = <<>>
    /\ regular_donors = <<>>
    /\ rg_transactions = <<>>
    /\ acq_date = <<>>
    /\ repeat_donor_ids = {}
    /\ df_adhoc = <<>>
    /\ date_draws = <<>>
    /\ df_opps = <<>>
    /\ unsolicited_indices = {}
    /\ campaign = <<>>
    /\ idx = 0
    /\ amt = NoAmount
    /\ row = NoRow

\* the month whose churn draw fires: none, the first possible, and the
\* sixteenth month of a plan
SampleDrops == {0, 2, 16}

NextSample ==
    \/ DrawStartPoints({1})
    \/ MakePlan(SampleDrops, {10})
    \/ PlansDone
    \/ ExpandPlan
    \/ ExpandDone
    \/ DrawAcqDate({12}, {31})
    \/ DrawRepeatPool
    \/ UniformEvent({12}, {1}, PipelineRaws, PipelineRepls)
    \/ AcquisitionEvent(PipelineRaws, PipelineRepls)
    \/ RepeatEvent({12}, {1}, {1}, PipelineRaws, PipelineRepls)
    \/ AdhocDone
    \/ MergeAndSample
    \/ AssignCampaigns
    \/ FillNa

SpecSample == InitSample /\ [][NextSample]_vars

(***************************************************************************)
(* Properties.                                                             *)
(***************************************************************************)
WithinHorizon(d) == DateLE(start_date, d) /\ DateLE(d, end_date)

\* C1: with start_date <= end_date, every Regular transaction closes within
\* [start_date, end_date].
C1_RegularWithinHorizon ==
    DateLE(start_date, end_date) =>
        \A k \in DOMAIN rg_transactions : WithinHorizon(rg_transactions[k].close_date)

\* C2: with start_date <= end_date, every one-off transaction, of either
\* script, closes within [start_date, end_date].
C2_OneOffWithinHorizon ==
    DateLE(start_date, end_date) =>
        \A k \in DOMAIN df_adhoc : WithinHorizon(df_adhoc[k].close_date)

\* the calendar months from the month of d to the month of end_date, inclusive
MonthsToHorizonEnd(d) ==
    Cardinality({ym \in (d[1]..end_date[1]) \X (1..12) :
                    /\ ym[1] > d[1] \/ ym[2] >= d[2]
                    /\ ym[1] < end_date[1] \/ ym[2] <= end_date[2]})

\* C3: every plan has 1 <= months <= the months from its start month to the
\* horizon-end month; months is m - 1 for the month m whose churn draw fired
\* and the number of those months when none fired.
C3_TenureWithinHorizon ==
    \A k \in DOMAIN regular_donors :
        LET plan == regular_donors[k]
            maxMonths == MonthsToHorizonEnd(plan.start_date)
        IN /\ 1 <= plan.months
           /\ plan.months <= maxMonths
           /\ drop_draws[k] # 0 => plan.months = drop_draws[k] - 1
           /\ drop_draws[k] = 0 => plan.months = maxMonths

CampaignLabels ==
    {"Regular Giving", "Unsolicited", "Major Giving", "Tax Appeal", "Christmas Appeal",
     "Spring Newsletter", "Autumn Newsletter"}

PassDone == pc \in {"fillna", "done"} \/ error = "KeyError: is_major_gift"

\* C4: after the assignment pass every row of the merged table has one label of
\* the seven, and every Regular row is labelled Regular Giving.
C4_OneLabelPerRow ==
    PassDone =>
        /\ Len(campaign) = Len(df_opps)
        /\ \A k \in DOMAIN df_opps :
              /\ campaign[k] \in CampaignLabels
              /\ df_opps[k].type = "Regular" => campaign[k] = "Regular Giving"

\* C4 witness: a finished run with a sampled one-off row and a Regular row of a
\* major donor that closes inside the Christmas window.
C4_Witness ==
    /\ pc = "done"
    /\ unsolicited_indices # {}
    /\ \E k \in DOMAIN df_opps :
          /\ df_opps[k].type = "Regular"
          /\ df_opps[k].close_date[2] = 1
          /\ major_map(df_opps[k].contact_id)
          /\ campaign[k] = "Regular Giving"

\* month and day as one number, 1 May being 501
MonthDay(d) == d[2] * 100 + d[3]

\* the cascade as the claim words it, by windows of the calendar
ClaimedCampaign(r) ==
    LET md == MonthDay(r.close_date)
    IN CASE r.type = "Regular" -> "Regular Giving"
         [] r.type # "Regular" /\ r.name \in r.sample -> "Unsolicited"
         [] r.type # "Regular" /\ r.name \notin r.sample /\ r.is_major_gift = "True" -> "Major Giving"
         [] OTHER ->
               IF 501 <= md /\ md <= 715 THEN "Tax Appeal"
               ELSE IF md >= 1101 \/ md <= 115 THEN "Christmas Appeal"
               ELSE IF 916 <= md /\ md <= 1015 THEN "Spring Newsletter"
               ELSE IF 316 <= md /\ md <= 415 THEN "Autumn Newsletter"
               ELSE "Unsolicited"

\* C5: the label of a classified row is the one the first matching rule of the
\* cascade gives.
C5_CascadeFirstMatch ==
    row.stage = "classified" => row.campaign = ClaimedCampaign(row)

\* C5 witness: a sampled major gift inside the tax window, labelled Unsolicited.
C5_Witness ==
    /\ row.stage = "classified"
    /\ row.type # "Regular"
    /\ row.name \in row.sample
    /\ row.is_major_gift = "True"
    /\ row.close_date = <<Y0, 7, 15>>
    /\ row.campaign = "Unsolicited"

SampleDrawn == pc \in {"assign", "fillna", "done"} \/ error = "KeyError: is_major_gift"

\* C6 as stated: the sample holds only non-Regular indices and its size is 5% of
\* the number of non-Regular transactions.
C6_SampleOfNonRegular ==
    SampleDrawn =>
        /\ unsolicited_indices \subseteq NonRegularIndices(df_opps)
        /\ Cardinality(unsolicited_indices) =
              (5 * Cardinality(NonRegularIndices(df_opps))) \div 100

\* C6 amended: the sample is drawn before the pass, holds only non-Regular
\* indices, has int(0.05 * n) members for the n rows of the whole merged table,
\* and does not change once drawn.
C6_SampleOfAllRows ==
    /\ [](SampleDrawn =>
            /\ unsolicited_indices \subseteq NonRegularIndices(df_opps)
            /\ Cardinality(unsolicited_indices) = (5 * Len(df_opps)) \div 100)
    /\ [](pc \in {"contacts", "start_points", "plans", "expand", "acq", "adhoc", "merge"} =>
            unsolicited_indices = {} /\ campaign = <<>>)
    /\ [][SampleDrawn => unsolicited_indices' = unsolicited_indices]_vars

\* C6 witness: a finished run whose sample is not empty, with fewer than twenty
\* one-off rows.
C6_Witness ==
    /\ pc = "done"
    /\ unsolicited_indices # {}
    /\ Len(df_adhoc) < 20
    /\ \A k \in unsolicited_indices : campaign[k + 1] = "Unsolicited"

\* the base the claim names for a post-cap amount (cents)
ClaimedBase(a) ==
    IF a >= Cents(1000) THEN 500 ELSE IF a >= Cents(100) THEN 50 ELSE 5

Abs(x) == IF x < 0 THEN -x ELSE x

\* C7 as stated: the stored amount is a multiple of the base and differs from
\* the post-cap amount by less than half the base.
C7_RoundingStrict ==
    amt.stage = "stored" =>
        /\ amt.stored % ClaimedBase(amt.amount) = 0
        /\ 2 * Abs(Cents(amt.stored) - amt.amount) < Cents(ClaimedBase(amt.amount))

\* C7 amended: the stored amount is a multiple of the base and differs from the
\* post-cap amount by at most half the base.
C7_RoundingLaw ==
    amt.stage = "stored" =>
        /\ amt.stored % ClaimedBase(amt.amount) = 0
        /\ 2 * Abs(Cents(amt.stored) - amt.amount) <= Cents(ClaimedBase(amt.amount))

\* C7 witness: a stored amount exactly half a base away from its post-cap amount.
C7_Witness ==
    /\ amt.stage = "stored"
    /\ 2 * Abs(Cents(amt.stored) - amt.amount) = Cents(ClaimedBase(amt.amount))

\* C8: a major amount lies in [1000, 50000] and a non-major one in [25, 1000],
\* before and after rounding; a raw draw above the cap is replaced by a value in
\* [20000, 50000] (major, stored as a multiple of 500) or [500, 1000] (non-major).
C8_CappingLaw ==
    /\ amt.stage \in {"capped", "stored"} =>
          /\ amt.is_major => Cents(1000) <= amt.amount /\ amt.amount <= Cents(50000)
          /\ ~amt.is_major => Cents(25) <= amt.amount /\ amt.amount <= Cents(1000)
          /\ amt.is_major /\ amt.raw > Cents(50000) =>
                Cents(20000) <= amt.amount /\ amt.amount <= Cents(50000)
          /\ ~amt.is_major /\ amt.raw > Cents(1000) =>
                Cents(500) <= amt.amount /\ amt.amount <= Cents(1000)
    /\ amt.stage = "stored" =>
          /\ amt.is_major => 1000 <= amt.stored /\ amt.stored <= 50000
          /\ ~amt.is_major => 25 <= amt.stored /\ amt.stored <= 1000
          /\ amt.is_major /\ amt.raw > Cents(50000) => amt.stored % 500 = 0

\* C8 witness: a major draw of exactly 60000 replaced and stored.
C8_Witness ==
    /\ amt.stage = "stored"
    /\ amt.is_major
    /\ amt.raw = Cents(60000)
    /\ amt.amount # amt.raw

ConfigInvalid == DateLT(end_date, start_date) \/ num_contacts <= 0 \/ target <= 0

\* C10: with end_date < start_date, a non-positive population or target, or
\* weights that sum to zero, nothing is ever generated.
C10_FailFast ==
    ConfigInvalid =>
        /\ df_contacts = <<>>
        /\ regular_donors = <<>>
        /\ rg_transactions = <<>>
        /\ df_adhoc = <<>>

\* C11: with a valid configuration and a complete contact table in which no
\* contact is flagged is_regular, the plan list and the Regular stream are empty
\* and the run never fails.
C11_EmptyPoolTolerated ==
    (~ConfigInvalid /\ pc # "contacts" /\ NumRegular(df_contacts) = 0) =>
        /\ regular_donors = <<>>
        /\ rg_transactions = <<>>
        /\ error = ""

\* a probability within [0, 1], in units of 1/100000
InUnitInterval(p) == 0 <= p /\ p <= 100000

Max(a, b) == IF a >= b THEN a ELSE b

\* C12: for the age of every generated contact, major_prob and reg_prob lie in
\* [0, 1], reg_prob equals max(0, reg_prob), and against every smaller age of
\* the range major_prob is not smaller and reg_prob is not larger.
C12_ProbabilitiesInRange ==
    \A k \in DOMAIN df_contacts :
        LET age == df_contacts[k].age
        IN /\ InUnitInterval(major_prob(age))
           /\ InUnitInterval(reg_prob(age))
           /\ reg_prob(age) = Max(0, reg_prob(age))
           /\ \A younger \in {a \in AgeRange : a <= age} :
                 /\ major_prob(younger) <= major_prob(age)
                 /\ reg_prob(younger) >= reg_prob(age)

\* C12 witness: both boundary ages have been drawn, the contact of age 90 flagged
\* regular by a draw below reg_prob(90) and the one of age 18 not major.
C12_Witness ==
    /\ pc = "start_points"
    /\ df_contacts[1].age = 18
    /\ ~df_contacts[1].is_major
    /\ df_contacts[1].is_regular
    /\ \E k \in DOMAIN df_contacts : df_contacts[k].age = 90

RECURSIVE DecimalValue(_)
\* the number a sequence of decimal digits writes
DecimalValue(s) ==
    IF s = <<>> THEN 0 ELSE 10 * DecimalValue(SubSeq(s, 1, Len(s) - 1)) + s[Len(s)]

\* C13: the generator returns num_contacts records; the k-th identifier is 003
\* followed by twelve digits that write the number k, identifiers are pairwise
\* distinct, ages lie in [18, 90] and genders in {F, M, Non-binary}.
C13_ContactRecords ==
    /\ pc # "contacts" => Len(df_contacts) = num_contacts
    /\ \A k \in DOMAIN df_contacts :
          LET id == df_contacts[k].contact_id
          IN /\ Len(id) = 15
             /\ SubSeq(id, 1, 3) = <<0, 0, 3>>
             /\ \A j \in 4..15 : id[j] \in 0..9
             /\ DecimalValue(SubSeq(id, 4, 15)) = k
             /\ df_contacts[k].age \in 18..90
             /\ df_contacts[k].gender \in {"F", "M", "Non-binary"}
    /\ \A j, k \in DOMAIN df_contacts :
          j # k => df_contacts[j].contact_id # df_contacts[k].contact_id

\* C13 witness: a returned table of ten records or more, the tenth identifier
\* ending in the digits 1, 0 and the first contact non-binary.
C13_Witness ==
    /\ pc = "start_points"
    /\ Len(df_contacts) >= 10
    /\ SubSeq(df_contacts[10].contact_id, 13, 15) = <<0, 1, 0>>
    /\ df_contacts[1].gender = "Non-binary"

EventLoopDone == pc \in {"merge", "assign", "fillna", "done"}

\* C14: once the event loop of either script has ended, the one-off stream holds
\* exactly target transactions, whatever the number of Regular transactions.
C14_ExactlyTargetEvents ==
    EventLoopDone => Len(df_adhoc) = target

\* the events of index num_contacts and above, as positions of df_adhoc
RepeatEvents == {k \in DOMAIN df_adhoc : k > num_contacts}

\* C15: every repeat event closes on or after the acquisition date of its donor;
\* when the seasonal date precedes the acquisition date, the event closes in
\* (acq_date, end_date] if acq_date < end_date and on acq_date if acq_date = end_date.
C15_RepeatNotBeforeAcquisition ==
    variant = "fix3" =>
        \A k \in RepeatEvents :
            LET acq == AcqDateOf(df_adhoc[k].contact_id)
                close_date == df_adhoc[k].close_date
            IN /\ DateLE(acq, close_date)
               /\ (DateLT(date_draws[k], acq) /\ DateLT(acq, end_date)) =>
                      DateLT(acq, close_date) /\ DateLE(close_date, end_date)
               /\ (DateLT(date_draws[k], acq) /\ acq = end_date) => close_date = acq

\* C15 witness: a repeat event of a donor acquired on the last day of the
\* horizon whose seasonal date fell before the acquisition and was pinned to it.
C15_Witness ==
    /\ variant = "fix3"
    /\ \E k \in RepeatEvents :
          LET acq == AcqDateOf(df_adhoc[k].contact_id)
          IN /\ DateLT(date_draws[k], acq)
             /\ acq = end_date
             /\ df_adhoc[k].close_date = acq

\* the number of one-off transactions of a contact
GiftsOf(cid) == Cardinality({k \in DOMAIN df_adhoc : df_adhoc[k].contact_id = cid})

TransactionsOf(plan) ==
    SelectSeq(rg_transactions, LAMBDA tx : tx.contact_id = plan.contact_id)

\* the plans the expansion loop has gone through
ExpandedPlans == IF pc = "expand" THEN 1..idx ELSE {}

\* a month as one number, counted from the year 0
MonthNumber(d) == d[1] * 12 + (d[2] - 1)

\* the transactions of a plan close on day 1 of the months s, s+1, s+2, ...
ConsecutiveMonths(plan) ==
    LET txs == TransactionsOf(plan)
    IN \A i \in DOMAIN txs :
          /\ txs[i].close_date[3] = 1
          /\ MonthNumber(txs[i].close_date) = MonthNumber(plan.start_date) + (i - 1)

\* opportunity ids are 0, 1, 2, ... in emission order
ConsecutiveIds ==
    \A i \in DOMAIN rg_transactions : rg_transactions[i].opportunity_id = <<"006_REG_", i - 1>>

C18_SampleFits ==
    ~ConfigInvalid =>
        /\ pc = "merge" =>
              (5 * (Len(rg_transactions) + Len(df_adhoc))) \div 100 <= Len(df_adhoc)
        /\ error # "ValueError: sample larger than population"

====
